---- MODULE Spec2Model ----
(***************************************************************************)
(* A model of typetime's runtime (src/src/typecheck.ts): the checker       *)
(* combinators, the module-level error context (currentErrors,             *)
(* currentField) and the entry points parse / parseJSON.                   *)
(*                                                                         *)
(* JavaScript values are tagged pairs <<tag, payload>>:                    *)
(*   <<"str", s>>  <<"num", n>>  <<"bool", b>>  <<"null", 0>>              *)
(*   <<"undef", 0>>                                                        *)
(*   <<"obj", pairs>>  own properties <<key, value>> in own-property order *)
(*   <<"arr", <<elems, props>> >>  elements, then non-index own properties *)
(*   <<"inst", <<class, pairs>> >>  an instance of a class, own properties *)
(* Checkers are tagged pairs as well (see the constructors below).         *)
(* A field-path segment is <<"key", k>> (a string pushed by object.check)  *)
(* or <<"idx", i>> (a number pushed by array.check).                       *)
(***************************************************************************)
EXTENDS Integers, Sequences, FiniteSets, TLC

VARIABLES
    heap,           \* the ParseError[] arrays allocated so far, by identity
    currentErrors,  \* identity of the active error array, 0 for undefined
    currentField,   \* the module-level field-path stack
    results,        \* what each top-level parse / parseJSON call gave its caller
    last,           \* the most recent top-level call: inputs and outcome
    checkers        \* the checker objects the caller holds, by identity

vars == <<heap, currentErrors, currentField, results, last, checkers>>

MaxCalls == 2
MaxCheckers == 4

------------------------------------------------------------------------------
(* JavaScript values *)

Str(s) == <<"str", s>>
Num(n) == <<"num", n>>
Bool(b) == <<"bool", b>>
Null == <<"null", 0>>
Undef == <<"undef", 0>>
Obj(pairs) == <<"obj", pairs>>
Arr(elems, props) == <<"arr", <<elems, props>> >>
Inst(class, pairs) == <<"inst", <<class, pairs>> >>

Tag(v) == v[1]
ArrElems(v) == v[2][1]
ArrProps(v) == v[2][2]

\* The canonical array-index property names of the bounded key universe.
IndexOf == [k \in {"0", "1", "2"} |-> CASE k = "0" -> 0 [] k = "1" -> 1 [] k = "2" -> 2]

IsIndexKey(k) == k \in DOMAIN IndexOf

IndexName(i) == CHOOSE k \in DOMAIN IndexOf : IndexOf[k] = i

KeyPos(pairs, k) ==
    IF \E i \in 1..Len(pairs) : pairs[i][1] = k
    THEN CHOOSE i \in 1..Len(pairs) : pairs[i][1] = k
    ELSE 0

InsertAt(s, i, e) == SubSeq(s, 1, i - 1) \o <<e>> \o SubSeq(s, i, Len(s))

\* obj[k] = v on an ordinary object: an existing property keeps its place;
\* a new integer-like key goes among the integer-like keys in ascending
\* order, ahead of every other key; any other new key goes last.
SetProp(pairs, k, v) ==
    LET p == KeyPos(pairs, k) IN
    IF p # 0 THEN [pairs EXCEPT ![p] = <<k, v>>]
    ELSE IF IsIndexKey(k)
         THEN LET later == {i \in 1..Len(pairs) :
                              \/ ~IsIndexKey(pairs[i][1])
                              \/ IndexOf[pairs[i][1]] > IndexOf[k]}
                  at == IF later = {} THEN Len(pairs) + 1
                        ELSE CHOOSE i \in later : \A j \in later : i <= j
              IN InsertAt(pairs, at, <<k, v>>)
         ELSE Append(pairs, <<k, v>>)

RECURSIVE JsObjectFrom(_, _)
JsObjectFrom(acc, decl) ==
    IF decl = <<>> THEN acc
    ELSE JsObjectFrom(SetProp(acc, decl[1][1], decl[1][2]), Tail(decl))

\* The own properties of an object literal written with the given
\* key/value pairs, in the order Object.entries enumerates them.
JsObject(decl) == JsObjectFrom(<<>>, decl)

Keys(pairs) == [i \in 1..Len(pairs) |-> pairs[i][1]]

Typeof(v) ==
    CASE Tag(v) = "str" -> "string"
      [] Tag(v) = "num" -> "number"
      [] Tag(v) = "bool" -> "boolean"
      [] Tag(v) = "undef" -> "undefined"
      [] OTHER -> "object"

\* value instanceof Object
InstanceOfObject(v) == Tag(v) \in {"obj", "arr", "inst"}

\* value instanceof classObj; no subclass is modelled
InstanceOf(v, class) == Tag(v) = "inst" /\ v[2][1] = class

\* value instanceof Array
InstanceOfArray(v) == Tag(v) = "arr"

\* As IsPlainObject, but without the test of the constructor.
IsPlainObjectAnyObject(v) == Tag(v) \in {"obj", "arr", "inst"}

\* sanitized instanceof Object && sanitized.constructor === Object
IsPlainObject(v) == Tag(v) = "obj"

\* Object.entries(value) for an object, a class instance or an array
ObjectEntries(v) ==
    IF Tag(v) = "obj" THEN v[2]
    ELSE IF Tag(v) = "inst" THEN v[2][2]
    ELSE IF Tag(v) = "arr"
    THEN [i \in 1..Len(ArrElems(v)) |-> <<IndexName(i - 1), ArrElems(v)[i]>>]
         \o ArrProps(v)
    ELSE <<>>

\* Object.hasOwn(value, key)
HasOwn(v, k) == KeyPos(ObjectEntries(v), k) # 0

\* value[key]; no inherited property is modelled
Get(v, k) ==
    LET e == ObjectEntries(v)
        p == KeyPos(e, k)
    IN IF p = 0 THEN Undef ELSE e[p][2]

------------------------------------------------------------------------------
(* Checkers.  A refinement predicate, a nominal predicate and a message    *)
(* function are caller code; the model draws them from the named families  *)
(* of ApplyPredicate and ComputeMessage.                                   *)

Primitive(name) == <<"primitive", name>>
NullT == <<"null", 0>>
UndefinedT == <<"undefined", 0>>
Literal(arg) == <<"literal", arg>>
Class(classObj) == <<"class", classObj>>
Nominal(checker, name) == <<"nominal", <<checker, name>> >>
Optional(type) == <<"optional", type>>
Object(schema) == <<"object", schema>>
Array(type) == <<"array", type>>
Tuple(types) == <<"tuple", types>>
Or(args) == <<"or", args>>
And(args) == <<"and", args>>
Refine(base, check, message) == <<"refine", <<base, check, message>> >>

\* The permissive checkers any and unknown.
AnyT == <<"any", 0>>
UnknownT == <<"unknown", 0>>

StringT == Primitive("string")
NumberT == Primitive("number")
BooleanT == Primitive("boolean")

isOptionalWrapper(type) == type[1] = "optional"

\* refine's message parameter: its default, a string, or a function
DefaultMessage == <<"string", "invalid value">>
MessageString(s) == <<"string", s>>
MessageFunction(f) == <<"function", f>>

------------------------------------------------------------------------------
(* The running call's view of the module state.  heap, cur and field are   *)
(* the program's state; ok / val / res carry return values, threw an       *)
(* exception in flight; log and trace are observations of the run.         *)

NoResult == [success |-> FALSE, value |-> Undef, errors |-> 0, unwrap |-> <<"none", 0>>]

Enter(h, c, f) ==
    [heap |-> h, cur |-> c, field |-> f, ok |-> TRUE, val |-> Undef,
     threw |-> FALSE, res |-> NoResult, log |-> <<>>, trace |-> <<>>]

ParseError(field, message) == [field |-> field, message |-> message]

\* As PushError, but recording the error at the root path.
PushErrorAtRoot(ctx, message) ==
    IF ctx.cur = 0 THEN ctx
    ELSE [ctx EXCEPT !.heap[ctx.cur] = Append(@, ParseError(<<>>, message))]

\* currentErrors?.push(new ParseError([...currentField], message))
PushError(ctx, message) ==
    IF ctx.cur = 0 THEN ctx
    ELSE [ctx EXCEPT !.heap[ctx.cur] = Append(@, ParseError(ctx.field, message))]

ReturnFalse(ctx) == [ctx EXCEPT !.ok = FALSE]
ReturnTrue(ctx) == [ctx EXCEPT !.ok = TRUE]
ReturnValue(ctx, v) == [ctx EXCEPT !.val = v]
Throw(ctx) == [ctx EXCEPT !.threw = TRUE]

\* As FieldPush, but leaving the path as it is.
FieldPushNothing(ctx, seg) == ctx

\* currentField.push(segment) / currentField.pop()
FieldPush(ctx, seg) == [ctx EXCEPT !.field = Append(@, seg)]
\* As FieldPop, but skipped when the call in between threw.
FieldPopUnlessThrown(ctx) ==
    IF ctx.threw THEN ctx ELSE [ctx EXCEPT !.field = SubSeq(@, 1, Len(@) - 1)]

FieldPop(ctx) == [ctx EXCEPT !.field = SubSeq(@, 1, Len(@) - 1)]

Observe(ctx, kind, tag) == [ctx EXCEPT !.trace = Append(@, <<kind, tag, ctx.field>>)]

\* currentErrors?.length ?? 0
ErrorsLength(ctx) == IF ctx.cur = 0 THEN 0 ELSE Len(ctx.heap[ctx.cur])

\* while (currentErrors && currentErrors.length > len) currentErrors.pop()
PopErrorsTo(ctx, len) ==
    IF ctx.cur # 0 /\ Len(ctx.heap[ctx.cur]) > len
    THEN [ctx EXCEPT !.heap[ctx.cur] = SubSeq(@, 1, len)]
    ELSE ctx

------------------------------------------------------------------------------
(* toTypeString *)

RECURSIVE ToTypeString(_, _)
RECURSIVE JoinTypeStrings(_, _, _)

JoinTypeStrings(args, i, sep) ==
    IF i > Len(args) THEN ""
    ELSE (IF i = 1 THEN "" ELSE sep)
         \o ToTypeString(args[i], TRUE)
         \o JoinTypeStrings(args, i + 1, sep)

\* As ObjectFieldStrings, but rendering each field type as a nested one.
RECURSIVE ObjectFieldStringsNested(_, _)
ObjectFieldStringsNested(entries, i) ==
    IF i > Len(entries) THEN ""
    ELSE LET key == entries[i][1]
             inputType == entries[i][2]
             optional == isOptionalWrapper(inputType)
             type == IF optional THEN inputType[2] ELSE inputType
         IN " " \o key \o (IF optional THEN "?" ELSE "") \o ": "
            \o ToTypeString(type, TRUE) \o ";"
            \o ObjectFieldStringsNested(entries, i + 1)

RECURSIVE ObjectFieldStrings(_, _)
ObjectFieldStrings(entries, i) ==
    IF i > Len(entries) THEN ""
    ELSE LET key == entries[i][1]
             inputType == entries[i][2]
             optional == isOptionalWrapper(inputType)
             type == IF optional THEN inputType[2] ELSE inputType
         IN " " \o key \o (IF optional THEN "?" ELSE "") \o ": "
            \o ToTypeString(type, FALSE) \o ";"
            \o ObjectFieldStrings(entries, i + 1)

\* any and unknown render as their names.
PermissiveTypeString(type) == type[1]

LiteralTypeString(arg) ==
    CASE Tag(arg) = "str" -> "\"" \o arg[2] \o "\""
      [] Tag(arg) = "null" -> "null"
      [] Tag(arg) = "undef" -> "undefined"
      [] Tag(arg) = "bool" -> (IF arg[2] THEN "true" ELSE "false")
      [] OTHER -> ToString(arg[2])

ObjectTypeString(schema) ==
    LET result == "{" \o ObjectFieldStrings(JsObject(schema), 1) \o " }"
    IN IF result = "{ }" THEN "{}" ELSE result

\* As Parenthesized, but whatever the position.
ParenthesizedAlways(s, nested) == "(" \o s \o ")"

Parenthesized(s, nested) == IF nested THEN "(" \o s \o ")" ELSE s

ToTypeString(type, nested) ==
    CASE type[1] = "primitive" -> type[2]
      [] type[1] = "null" -> "null"
      [] type[1] = "undefined" -> "undefined"
      [] type[1] = "literal" -> LiteralTypeString(type[2])
      [] type[1] = "nominal" -> type[2][2]
      [] type[1] = "class" -> type[2]
      [] type[1] \in {"any", "unknown"} -> PermissiveTypeString(type)
      [] type[1] = "object" -> ObjectTypeString(type[2])
      [] type[1] = "array" -> ToTypeString(type[2], TRUE) \o "[]"
      [] type[1] = "tuple" -> "[" \o JoinTypeStrings(type[2], 1, ", ") \o "]"
      [] type[1] = "or" -> Parenthesized(JoinTypeStrings(type[2], 1, " | "), nested)
      [] type[1] = "and" -> Parenthesized(JoinTypeStrings(type[2], 1, " & "), nested)
      [] type[1] = "refine" -> ToTypeString(type[2][1], nested)

defaultTypeStringOptions == Obj(<< <<"nested", Bool(FALSE)>> >>)

\* { ...defaultTypeStringOptions, ...(options ?? {}) }
SpreadOptions(options) ==
    IF Tag(options) \in {"null", "undef"} THEN defaultTypeStringOptions
    ELSE IF HasOwn(options, "nested") THEN options
    ELSE defaultTypeStringOptions

\* checker.toTypeString(options?) of an object createTypeChecker made.
TypeCheckerToTypeString(type, options) ==
    ToTypeString(type, Get(SpreadOptions(options), "nested") = Bool(TRUE))

------------------------------------------------------------------------------
(* check, sanitize and parse.  They call each other (a predicate may call  *)
(* parse), so they are declared together.                                  *)

RECURSIVE Check(_, _, _)
RECURSIVE Sanitize(_, _, _)
RECURSIVE Parse(_, _, _)
RECURSIVE ObjectCheckLoop(_, _, _, _, _)
RECURSIVE ArrayCheckLoop(_, _, _, _)
RECURSIVE OrCheckLoop(_, _, _, _, _)
RECURSIVE AndCheckLoop(_, _, _, _, _)
RECURSIVE ObjectSanitizeLoop(_, _, _, _, _)
RECURSIVE ArraySanitizeLoop(_, _, _, _, _)
RECURSIVE MergeSanitizeLoop(_, _, _, _, _)
RECURSIVE TupleCheckLoop(_, _, _, _, _)
RECURSIVE TupleSanitizeLoop(_, _, _, _, _)

\* One record per parse call made from a predicate: the caller's error
\* array and path when the call started, and what the call left and gave.
NestedParseRecord(schema, value, before, after) ==
    [schema |-> schema,
     value |-> value,
     cur |-> before.cur,
     field |-> before.field,
     outerBefore |-> IF before.cur = 0 THEN <<>> ELSE before.heap[before.cur],
     outerAfter |-> IF before.cur = 0 THEN <<>> ELSE after.heap[before.cur],
     curAfter |-> after.cur,
     fieldAfter |-> after.field,
     threw |-> after.threw,
     success |-> after.res.success,
     errors |-> IF after.threw \/ after.res.errors = 0 THEN <<>>
                ELSE after.heap[after.res.errors]]

\* A predicate that returns parse(inner, value).success.
PredicateParsed(schema, value, before, r) ==
    [r EXCEPT !.ok = r.res.success,
              !.log = Append(@, NestedParseRecord(schema, value, before, r))]

\* The caller-supplied predicates the model draws from.  The result is the
\* context with ok set to what the predicate returned, or with threw set.
PredicateBody(pred, value, seen) ==
    CASE pred[1] = "isString" ->
           [seen EXCEPT !.ok = (Typeof(value) = "string")]
      [] pred[1] = "nonEmpty" ->
           [seen EXCEPT !.ok = (value # Str(""))]
      [] pred[1] = "never" ->
           [seen EXCEPT !.ok = FALSE]
      [] pred[1] = "throws" ->
           Throw(seen)
      [] pred[1] = "parse" ->
           PredicateParsed(pred[2], value, seen, Parse(pred[2], value, seen))

ApplyPredicate(pred, value, ctx) ==
    PredicateBody(pred, value, Observe(ctx, "predicate", pred[1]))

\* typeof message === "string" ? message : message(value)
ComputeMessage(message, value) ==
    IF message[1] = "string" THEN message[2]
    ELSE message[2] \o " " \o Typeof(value)

\* As PrimitiveCheck, but pushing the error without looking whether there
\* is a list to push it on.
PrimitiveCheckNeedingContext(name, value, ctx) ==
    IF Typeof(value) # name
    THEN IF ctx.cur = 0 THEN Throw(ctx)
         ELSE ReturnFalse(PushError(ctx, "expected " \o name))
    ELSE ReturnTrue(ctx)

PrimitiveCheck(name, value, ctx) ==
    IF Typeof(value) # name
    THEN ReturnFalse(PushError(ctx, "expected " \o name))
    ELSE ReturnTrue(ctx)

NullCheck(value, ctx) ==
    IF value # Null
    THEN ReturnFalse(PushError(ctx, "expected null"))
    ELSE ReturnTrue(ctx)

UndefinedCheck(value, ctx) ==
    IF value # Undef
    THEN ReturnFalse(PushError(ctx, "expected undefined"))
    ELSE ReturnTrue(ctx)

LiteralCheck(arg, value, ctx) ==
    IF value # arg
    THEN ReturnFalse(PushError(ctx, "expected " \o LiteralTypeString(arg)))
    ELSE ReturnTrue(ctx)

ClassCheck(classObj, value, ctx) ==
    IF ~InstanceOf(value, classObj)
    THEN ReturnFalse(PushError(ctx, "expected " \o classObj))
    ELSE ReturnTrue(ctx)

\* any.check / unknown.check: every value is accepted, nothing is recorded.
PermissiveCheck(value, ctx) == ReturnTrue(ctx)

\* any.sanitize / unknown.sanitize: the value itself.
PermissiveSanitize(value, ctx) == ReturnValue(ctx, value)

\* nominal.check once checker(value) has returned (or thrown) in c
NominalChecked(name, c) ==
    IF c.threw THEN c
    ELSE IF ~c.ok THEN ReturnFalse(PushError(c, "expected " \o name))
    ELSE ReturnTrue(c)

NominalCheck(checker, name, value, ctx) ==
    NominalChecked(name, ApplyPredicate(checker, value, ctx))

\* the refined check once the predicate has returned (or thrown) in c
RefinePredicateChecked(message, value, c) ==
    IF c.threw THEN c
    ELSE IF ~c.ok
    THEN ReturnFalse(PushError(c, ComputeMessage(message, value)))
    ELSE ReturnTrue(c)

\* As RefineBaseChecked, but calling the predicate whatever base.check
\* returned.
RefineBaseCheckedAlways(check, message, value, b) ==
    IF b.threw THEN b
    ELSE RefinePredicateChecked(message, value,
             [ApplyPredicate(check, value, b) EXCEPT !.ok = @ /\ b.ok])

\* the refined check once base.check(value) has returned (or thrown) in b
RefineBaseChecked(check, message, value, b) ==
    IF b.threw THEN b
    ELSE IF ~b.ok THEN ReturnFalse(b)
    ELSE RefinePredicateChecked(message, value, ApplyPredicate(check, value, b))

\* As RefineCheck, but refining the checker the base was itself refined
\* from, so that the base's own refinement is lost.
RefineCheckUnrefinedBase(base, check, message, value, ctx) ==
    RefineBaseChecked(check, message, value,
                      Check(IF base[1] = "refine" THEN base[2][1] ELSE base, value, ctx))

RefineCheck(base, check, message, value, ctx) ==
    RefineBaseChecked(check, message, value, Check(base, value, ctx))

\* What object.check checks for one entry of the schema: the wrapped
\* checker of an optional field that is present, the checker of a
\* required field, nothing for an absent optional field.
ObjectFieldIsChecked(key, type, value) ==
    isOptionalWrapper(type) => (HasOwn(value, key) /\ Get(value, key) # Undef)

ObjectFieldChecker(type) == IF isOptionalWrapper(type) THEN type[2] ELSE type

\* The body of object.check's loop for one entry: push the key, check the
\* field unless it is an absent optional one, pop the key (finally).
ObjectCheckEntry(key, type, value, ctx) ==
    FieldPop(IF ObjectFieldIsChecked(key, type, value)
             THEN Check(ObjectFieldChecker(type), Get(value, key),
                        FieldPush(ctx, <<"key", key>>))
             ELSE ReturnTrue(FieldPush(ctx, <<"key", key>>)))

\* As ObjectCheckNext, but returning at the first field that fails.
ObjectCheckNextFailFast(entries, i, value, good, c) ==
    IF c.threw THEN c
    ELSE IF ~c.ok THEN ReturnFalse(c)
    ELSE ObjectCheckLoop(entries, i + 1, value, c, good)

ObjectCheckNext(entries, i, value, good, c) ==
    IF c.threw THEN c
    ELSE ObjectCheckLoop(entries, i + 1, value, c, good /\ c.ok)

ObjectCheckLoop(entries, i, value, ctx, good) ==
    IF i > Len(entries) THEN [ctx EXCEPT !.ok = good]
    ELSE ObjectCheckNext(entries, i, value, good,
                         ObjectCheckEntry(entries[i][1], entries[i][2], value, ctx))

ObjectCheck(schema, value, ctx) ==
    IF ~InstanceOfObject(value)
    THEN ReturnFalse(PushError(ctx, "expected object"))
    ELSE ObjectCheckLoop(JsObject(schema), 1, value, ctx, TRUE)

\* String(parseInt(i)) === i, on the bounded key universe: the canonical
\* integer names, and "NaN" (parseInt gives NaN, which prints as "NaN").
ParsesAsItself(i) == IsIndexKey(i) \/ i = "NaN"

\* Number(i) as a path segment
NumberSegment(i) == IF IsIndexKey(i) THEN <<"idx", IndexOf[i]>> ELSE <<"nan", 0>>

ArrayCheckNext(type, entries, i, c) ==
    IF c.threw THEN c
    ELSE IF ~c.ok THEN ReturnFalse(c)
    ELSE ArrayCheckLoop(type, entries, i + 1, c)

ArrayCheckLoop(type, entries, i, ctx) ==
    IF i > Len(entries) THEN ReturnTrue(ctx)
    ELSE IF ~ParsesAsItself(entries[i][1])
    THEN ArrayCheckLoop(type, entries, i + 1, ctx)
    ELSE ArrayCheckNext(type, entries, i,
             FieldPop(Check(type, entries[i][2],
                            FieldPush(ctx, NumberSegment(entries[i][1])))))

\* tuple.check: a sequence of exactly as many elements as the tuple has
\* types, or one error; then every position is checked with its index on
\* the path, whatever failed before it.
TupleCheckNext(types, i, value, good, c) ==
    IF c.threw THEN c
    ELSE TupleCheckLoop(types, i + 1, value, c, good /\ c.ok)

TupleCheckLoop(types, i, value, ctx, good) ==
    IF i > Len(types) THEN [ctx EXCEPT !.ok = good]
    ELSE TupleCheckNext(types, i, value, good,
             FieldPop(Check(types[i], ArrElems(value)[i],
                            FieldPush(ctx, <<"idx", i - 1>>))))

TupleCheck(types, value, ctx) ==
    IF ~InstanceOfArray(value) \/ Len(ArrElems(value)) # Len(types)
    THEN ReturnFalse(PushError(ctx, "expected array of length " \o ToString(Len(types))))
    ELSE TupleCheckLoop(types, 1, value, ctx, TRUE)

ArrayCheck(type, value, ctx) ==
    IF ~InstanceOfArray(value)
    THEN ReturnFalse(PushError(ctx, "expected array"))
    ELSE ArrayCheckLoop(type, ObjectEntries(value), 1, ctx)

\* As OrCheckNext, but leaving the errors of a failed alternative in place.
OrCheckNextKeeping(self, args, i, value, len, c) ==
    IF c.threw THEN c
    ELSE IF c.ok THEN ReturnTrue(c)
    ELSE OrCheckLoop(self, args, i + 1, value, c)

OrCheckNext(self, args, i, value, len, c) ==
    IF c.threw THEN c
    ELSE IF c.ok THEN ReturnTrue(c)
    ELSE OrCheckLoop(self, args, i + 1, value, PopErrorsTo(c, len))

OrCheckLoop(self, args, i, value, ctx) ==
    IF i > Len(args)
    THEN ReturnFalse(PushError(ctx, "expected " \o ToTypeString(self, FALSE)))
    ELSE OrCheckNext(self, args, i, value, ErrorsLength(ctx),
                     Check(args[i], value, ctx))

\* As AndCheckNext, but returning at the first operand that fails.
AndCheckNextShortCircuit(args, i, value, good, c) ==
    IF c.threw THEN c
    ELSE IF ~c.ok THEN ReturnFalse(c)
    ELSE AndCheckLoop(args, i + 1, value, c, good)

AndCheckNext(args, i, value, good, c) ==
    IF c.threw THEN c
    ELSE AndCheckLoop(args, i + 1, value, c, good /\ c.ok)

AndCheckLoop(args, i, value, ctx, good) ==
    IF i > Len(args) THEN [ctx EXCEPT !.ok = good]
    ELSE AndCheckNext(args, i, value, good, Check(args[i], value, ctx))

CheckBody(type, value, c) ==
    CASE type[1] = "primitive" -> PrimitiveCheck(type[2], value, c)
      [] type[1] = "null" -> NullCheck(value, c)
      [] type[1] = "undefined" -> UndefinedCheck(value, c)
      [] type[1] = "literal" -> LiteralCheck(type[2], value, c)
      [] type[1] = "nominal" -> NominalCheck(type[2][1], type[2][2], value, c)
      [] type[1] = "class" -> ClassCheck(type[2], value, c)
      [] type[1] \in {"any", "unknown"} -> PermissiveCheck(value, c)
      [] type[1] = "object" -> ObjectCheck(type[2], value, c)
      [] type[1] = "array" -> ArrayCheck(type[2], value, c)
      [] type[1] = "tuple" -> TupleCheck(type[2], value, c)
      [] type[1] = "or" -> OrCheckLoop(type, type[2], 1, value, c)
      [] type[1] = "and" -> AndCheckLoop(type[2], 1, value, c, TRUE)
      [] type[1] = "refine" ->
           RefineCheck(type[2][1], type[2][2], type[2][3], value, c)

Check(type, value, ctx) == CheckBody(type, value, Observe(ctx, "check", type[1]))

------------------------------------------------------------------------------
(* sanitize *)

\* Reading a property of null or undefined throws a TypeError.
IsNullish(v) == Tag(v) \in {"null", "undef"}

\* As ObjectFieldIsSanitized, but treating an own property whose value is
\* undefined as present.
ObjectFieldIsSanitizedIfOwn(key, type, value) ==
    isOptionalWrapper(type) => HasOwn(value, key)

\* Whether object.sanitize emits the key of one entry of the schema: always
\* for a required field, for an optional field when the value has the key
\* as an own property that is not undefined.
ObjectFieldIsSanitized(key, type, value) ==
    isOptionalWrapper(type) => (HasOwn(value, key) /\ Get(value, key) # Undef)

\* newValue[key] = <the sanitized field in s>, then the next entry
ObjectSanitizeNext(entries, i, value, newValue, s) ==
    IF s.threw THEN s
    ELSE ObjectSanitizeLoop(entries, i + 1, value, s,
                            SetProp(newValue, entries[i][1], s.val))

ObjectSanitizeLoop(entries, i, value, ctx, newValue) ==
    IF i > Len(entries) THEN ReturnValue(ctx, Obj(newValue))
    ELSE IF IsNullish(value) THEN Throw(ctx)
    ELSE IF ObjectFieldIsSanitized(entries[i][1], entries[i][2], value)
    THEN ObjectSanitizeNext(entries, i, value, newValue,
             Sanitize(ObjectFieldChecker(entries[i][2]),
                      Get(value, entries[i][1]), ctx))
    ELSE ObjectSanitizeLoop(entries, i + 1, value, ctx, newValue)

\* As ObjectSanitize, but starting from a copy of the input's properties.
ObjectSanitizeKeepingExtras(schema, value, ctx) ==
    ObjectSanitizeLoop(JsObject(schema), 1, value, ctx, ObjectEntries(value))

ObjectSanitize(schema, value, ctx) ==
    ObjectSanitizeLoop(JsObject(schema), 1, value, ctx, <<>>)

\* tuple.sanitize: element by element, a sequence of the same length.
TupleSanitizeNext(types, i, value, newValue, s) ==
    IF s.threw THEN s
    ELSE TupleSanitizeLoop(types, i + 1, value, s, Append(newValue, s.val))

TupleSanitizeLoop(types, i, value, ctx, newValue) ==
    IF i > Len(types) THEN ReturnValue(ctx, Arr(newValue, <<>>))
    ELSE TupleSanitizeNext(types, i, value, newValue,
                           Sanitize(types[i], Get(value, IndexName(i - 1)), ctx))

TupleSanitize(types, value, ctx) ==
    IF IsNullish(value) THEN Throw(ctx)
    ELSE TupleSanitizeLoop(types, 1, value, ctx, <<>>)

\* Array(value.length): that many empty slots (read back as undefined);
\* a value without a length gives the one-element array [undefined].
NewArray(value) ==
    IF Tag(value) = "arr"
    THEN Arr([i \in 1..Len(ArrElems(value)) |-> Undef], <<>>)
    ELSE Arr(<<Undef>>, <<>>)

\* newValue[Number(k)] = v: an index sets the element; any other name
\* converts to NaN and sets the property "NaN".
ArrayAssign(newValue, k, v) ==
    IF IsIndexKey(k) /\ IndexOf[k] < Len(ArrElems(newValue))
    THEN Arr([ArrElems(newValue) EXCEPT ![IndexOf[k] + 1] = v], ArrProps(newValue))
    ELSE Arr(ArrElems(newValue), SetProp(ArrProps(newValue), "NaN", v))

ArraySanitizeNext(type, entries, i, newValue, s) ==
    IF s.threw THEN s
    ELSE ArraySanitizeLoop(type, entries, i + 1, s,
                           ArrayAssign(newValue, entries[i][1], s.val))

ArraySanitizeLoop(type, entries, i, ctx, newValue) ==
    IF i > Len(entries) THEN ReturnValue(ctx, newValue)
    ELSE ArraySanitizeNext(type, entries, i, newValue,
                           Sanitize(type, entries[i][2], ctx))

ArraySanitize(type, value, ctx) ==
    IF IsNullish(value) THEN Throw(ctx)
    ELSE ArraySanitizeLoop(type, ObjectEntries(value), 1, ctx, NewArray(value))

RECURSIVE AssignEntries(_, _)
\* for (const [k, v] of Object.entries(sanitized)) obj[k] = v
AssignEntries(obj, entries) ==
    IF entries = <<>> THEN obj
    ELSE AssignEntries(SetProp(obj, entries[1][1], entries[1][2]), Tail(entries))

\* As MergeSanitized, but passing over a sanitized value that is not a
\* plain object instead of returning it.
MergeSanitizedSkipping(args, i, value, obj, s) ==
    IF s.threw THEN s
    ELSE IF IsPlainObject(s.val)
    THEN MergeSanitizeLoop(args, i + 1, value, s,
                           AssignEntries(obj, ObjectEntries(s.val)))
    ELSE MergeSanitizeLoop(args, i + 1, value, s, obj)

\* or.sanitize / and.sanitize once type.sanitize(value) has returned in s
MergeSanitized(args, i, value, obj, s) ==
    IF s.threw THEN s
    ELSE IF IsPlainObject(s.val)
    THEN MergeSanitizeLoop(args, i + 1, value, s,
                           AssignEntries(obj, ObjectEntries(s.val)))
    ELSE ReturnValue(s, s.val)

\* or.sanitize / and.sanitize once type.check(value) has returned in c
MergeChecked(args, i, value, obj, c) ==
    IF c.threw THEN c
    ELSE IF ~c.ok THEN MergeSanitizeLoop(args, i + 1, value, c, obj)
    ELSE MergeSanitized(args, i, value, obj, Sanitize(args[i], value, c))

\* or.sanitize and and.sanitize have the same body.
MergeSanitizeLoop(args, i, value, ctx, obj) ==
    IF i > Len(args) THEN ReturnValue(ctx, Obj(obj))
    ELSE MergeChecked(args, i, value, obj, Check(args[i], value, ctx))

OrSanitize(args, value, ctx) == MergeSanitizeLoop(args, 1, value, ctx, <<>>)

\* As AndSanitize, but going through the operands from the last to the
\* first.
AndSanitizeBackwards(args, value, ctx) ==
    MergeSanitizeLoop([i \in 1..Len(args) |-> args[Len(args) + 1 - i]],
                      1, value, ctx, <<>>)

AndSanitize(args, value, ctx) == MergeSanitizeLoop(args, 1, value, ctx, <<>>)

SanitizeBody(type, value, c) ==
    CASE type[1] = "primitive" -> ReturnValue(c, value)
      [] type[1] = "null" -> ReturnValue(c, Null)
      [] type[1] = "undefined" -> ReturnValue(c, Undef)
      [] type[1] = "literal" -> ReturnValue(c, type[2])
      [] type[1] = "nominal" -> ReturnValue(c, value)
      [] type[1] = "class" -> ReturnValue(c, value)
      [] type[1] \in {"any", "unknown"} -> PermissiveSanitize(value, c)
      [] type[1] = "object" -> ObjectSanitize(type[2], value, c)
      [] type[1] = "array" -> ArraySanitize(type[2], value, c)
      [] type[1] = "tuple" -> TupleSanitize(type[2], value, c)
      [] type[1] = "or" -> OrSanitize(type[2], value, c)
      [] type[1] = "and" -> AndSanitize(type[2], value, c)
      [] type[1] = "refine" -> Sanitize(type[2][1], value, c)

Sanitize(type, value, ctx) ==
    SanitizeBody(type, value, Observe(ctx, "sanitize", type[1]))

------------------------------------------------------------------------------
(* parse / parseJSON *)

\* As ParseInstall, but emptying and reusing one module-level array
\* instead of allocating a new one.
ParseInstallReused(ctx) ==
    [ctx EXCEPT !.heap = IF Len(@) = 0 THEN << <<>> >> ELSE [@ EXCEPT ![1] = <<>>],
                !.cur = 1]

\* const save = currentErrors; currentErrors = [];
ParseInstall(ctx) ==
    [ctx EXCEPT !.heap = Append(@, <<>>), !.cur = Len(ctx.heap) + 1]

\* finally { currentErrors = save; }
ParseRestore(ctx, save) == [ctx EXCEPT !.cur = save]

\* { success: false, value: undefined, errors, unwrap: () => { throw errors[0] } }
ParseFailure(errors) ==
    [success |-> FALSE, value |-> Undef, errors |-> errors,
     unwrap |-> <<"throwFirstOf", errors>>]

\* { success: true, value, errors: undefined, unwrap: () => value }
ParseSuccess(value) ==
    [success |-> TRUE, value |-> value, errors |-> 0,
     unwrap |-> <<"return", value>>]

\* const { value } = schema.sanitize(obj); return { success: true, ... }
ParseSanitized(s) ==
    IF s.threw THEN s ELSE [s EXCEPT !.res = ParseSuccess(s.val)]

\* As ParseChecked, but returning the value unsanitized.
ParseCheckedUnsanitized(schema, obj, save, checked) ==
    IF checked.threw THEN ParseRestore(checked, save)
    ELSE IF ~checked.ok
    THEN [ParseRestore(checked, save) EXCEPT !.res = ParseFailure(checked.cur)]
    ELSE [ParseRestore(checked, save) EXCEPT !.res = ParseSuccess(obj)]

\* As ParseChecked, but restoring currentErrors after the try block
\* instead of in a finally clause.
ParseCheckedNoFinally(schema, obj, save, checked) ==
    IF checked.threw THEN checked
    ELSE IF ~checked.ok
    THEN [ParseRestore(checked, save) EXCEPT !.res = ParseFailure(checked.cur)]
    ELSE ParseSanitized(Sanitize(schema, obj, ParseRestore(checked, save)))

\* parse once schema.check(obj) has returned (or thrown) in checked
ParseChecked(schema, obj, save, checked) ==
    IF checked.threw THEN ParseRestore(checked, save)
    ELSE IF ~checked.ok
    THEN [ParseRestore(checked, save) EXCEPT !.res = ParseFailure(checked.cur)]
    ELSE ParseSanitized(Sanitize(schema, obj, ParseRestore(checked, save)))

Parse(schema, obj, ctx) ==
    ParseChecked(schema, obj, ctx.cur, Check(schema, obj, ParseInstall(ctx)))

\* JSON.parse on the texts the model draws from: the decoded value, or
\* ok = FALSE where JSON.parse throws a SyntaxError.
JSONParse(json) ==
    CASE json = "5" -> [ok |-> TRUE, value |-> Num(5)]
      [] json = "\"x\"" -> [ok |-> TRUE, value |-> Str("x")]
      [] json = "null" -> [ok |-> TRUE, value |-> Null]
      [] json = "{\"a\":\"x\"}" -> [ok |-> TRUE, value |-> Obj(<< <<"a", Str("x")>> >>)]
      [] json = "{\"a\":5,\"b\":\"x\"}" ->
           [ok |-> TRUE, value |-> Obj(<< <<"a", Num(5)>>, <<"b", Str("x")>> >>)]
      [] json = "[\"x\",5]" -> [ok |-> TRUE, value |-> Arr(<<Str("x"), Num(5)>>, <<>>)]
      [] OTHER -> [ok |-> FALSE, value |-> Undef]

\* The failure result parseJSON builds itself: a new one-element array.
ParseJSONFailure(ctx) ==
    LET error == ParseError(<<>>, "Failed to parse JSON")
        h == Append(ctx.heap, <<error>>)
    IN [ctx EXCEPT !.heap = h,
                   !.res = [success |-> FALSE, value |-> Undef, errors |-> Len(h),
                            unwrap |-> <<"throw", error>>]]

\* As ParseJSON, but without the try / catch around JSON.parse's result.
ParseJSONUncaught(schema, json, ctx) == Parse(schema, JSONParse(json).value, ctx)

ParseJSON(schema, json, ctx) ==
    IF ~JSONParse(json).ok THEN ParseJSONFailure(ctx)
    ELSE Parse(schema, JSONParse(json).value, ctx)

\* result.unwrap(): what it returns, or the error it throws.  The closure
\* parse builds reads errors[0] when it is called.
Unwrap(result, h) ==
    CASE result.unwrap[1] = "return" -> [threw |-> FALSE, value |-> result.unwrap[2]]
      [] result.unwrap[1] = "throw" -> [threw |-> TRUE, error |-> result.unwrap[2]]
      [] result.unwrap[1] = "throwFirstOf" ->
           [threw |-> TRUE, error |-> h[result.unwrap[2]][1]]

------------------------------------------------------------------------------
(* The checkers and values the calls are drawn from. *)

ObjAB == Object(<< <<"a", StringT>>, <<"b", NumberT>> >>)
ObjAOptB == Object(<< <<"a", StringT>>, <<"b", Optional(NumberT)>> >>)
ObjB1A == Object(<< <<"b", NumberT>>, <<"1", NumberT>>, <<"a", StringT>> >>)
ObjEmpty == Object(<<>>)
ObjKA == Object(<< <<"k", Object(<< <<"a", StringT>> >>)>> >>)
ObjKB == Object(<< <<"k", Object(<< <<"b", NumberT>> >>)>> >>)
StringOrNumber == Or(<<StringT, NumberT>>)
ObjAOrObjB == Or(<<Object(<< <<"a", StringT>> >>), Object(<< <<"b", NumberT>> >>)>>)
NoString == Refine(StringT, <<"never", 0>>, MessageString("no string will do"))
\* c.refine(p1, m1).refine(p2, m2).refine(p3, m3)
Chain3(c, p1, m1, p2, m2, p3, m3) ==
    Refine(Refine(Refine(c, p1, MessageString(m1)), p2, MessageString(m2)),
           p3, MessageString(m3))
PredThrows == <<"throws", 0>>
PredParse(inner) == <<"parse", inner>>

Schemas ==
    { StringT, NumberT, NullT, UndefinedT, Literal(Str("x")),
      StringOrNumber, ObjAOrObjB,
      Or(<<NoString, ObjAB>>),
      Or(<<ObjKA, ObjKB>>),
      Or(<<ObjEmpty, Array(StringT)>>),
      Class("Foo"),
      Or(<<ObjAB, Class("Foo")>>),
      And(<<ObjAB, Class("Foo")>>),
      And(<<ObjAB, AnyT>>),
      And(<<UnknownT, ObjKA>>),
      Or(<<Or(<<StringT, NullT>>), Array(NumberT)>>),
      Or(<<StringT, Refine(NumberT, PredParse(StringOrNumber), DefaultMessage)>>),
      ObjAB, ObjAOptB, ObjB1A, ObjEmpty, ObjKA,
      And(<<ObjKA, ObjKB>>),
      And(<<ObjAB, ObjAOptB>>),
      And(<<NumberT, StringT, NoString>>),
      Array(StringT),
      Array(ObjAOptB),
      Tuple(<<>>),
      Tuple(<<StringT, NumberT>>),
      Tuple(<<ObjAB, ObjAB>>),
      Nominal(<<"isString", 0>>, "text"),
      Nominal(PredThrows, "thrower"),
      Refine(StringT, <<"nonEmpty", 0>>, DefaultMessage),
      Refine(StringT, <<"never", 0>>, MessageString("no string will do")),
      Refine(StringT, PredParse(Refine(StringT, PredThrows, DefaultMessage)),
             DefaultMessage),
      Refine(StringT, PredThrows, DefaultMessage),
      Refine(StringT, PredParse(NumberT), MessageFunction("not a number:")),
      Chain3(StringT, <<"never", 0>>, "first", <<"nonEmpty", 0>>, "second",
             <<"isString", 0>>, "third"),
      Chain3(StringT, <<"isString", 0>>, "first", <<"nonEmpty", 0>>, "second",
             <<"never", 0>>, "third"),
      Refine(Refine(NumberT, PredParse(StringOrNumber), MessageString("first")),
             <<"never", 0>>, MessageString("second")),
      Refine(NumberT, PredParse(StringOrNumber), DefaultMessage),
      Object(<< <<"a", Refine(StringT, PredThrows, DefaultMessage)>>,
                <<"b", NumberT>> >>),
      Object(<< <<"a", Refine(StringT, PredParse(NumberT), DefaultMessage)>>,
                <<"b", NumberT>> >>),
      Object(<< <<"a", Refine(NumberT, PredParse(StringOrNumber), DefaultMessage)>>,
                <<"b", StringT>> >>),
      Object(<< <<"a", Refine(NumberT, PredParse(And(<<NumberT, StringT>>)),
                              DefaultMessage)>> >>),
      Array(Refine(StringT, PredParse(ObjAB), DefaultMessage)),
      Array(Refine(NumberT, PredParse(StringOrNumber), DefaultMessage)),
      Array(Refine(StringT, PredThrows, DefaultMessage)) }

Values ==
    { Str("x"), Str(""), Num(5), Bool(TRUE), Null, Undef,
      Obj(<<>>),
      Obj(<< <<"a", Str("x")>> >>),
      Obj(<< <<"a", Num(5)>> >>),
      Obj(<< <<"a", Str("x")>>, <<"b", Num(5)>> >>),
      Obj(<< <<"b", Num(5)>>, <<"a", Str("x")>> >>),
      Obj(<< <<"a", Num(5)>>, <<"b", Str("x")>> >>),
      Obj(<< <<"b", Str("x")>>, <<"a", Num(5)>> >>),
      Obj(<< <<"c", Bool(TRUE)>>, <<"a", Str("x")>>, <<"b", Undef>> >>),
      Obj(<< <<"a", Str("x")>>, <<"b", Null>> >>),
      Obj(<< <<"1", Str("x")>>, <<"a", Num(5)>>, <<"b", Str("x")>> >>),
      Obj(<< <<"1", Num(5)>>, <<"c", Null>>, <<"b", Num(5)>>, <<"a", Str("x")>> >>),
      Obj(<< <<"k", Obj(<< <<"a", Str("x")>>, <<"b", Num(5)>> >>)>> >>),
      Obj(<< <<"k", Obj(<< <<"c", Null>>, <<"a", Str("x")>> >>)>>, <<"c", Num(5)>> >>),
      Inst("Foo", << <<"c", Null>>, <<"a", Str("x")>>, <<"b", Num(5)>> >>),
      Arr(<<>>, <<>>),
      Arr(<<Str("x")>>, <<>>),
      Arr(<<Str("x"), Num(5), Bool(TRUE)>>, <<>>),
      Arr(<<Num(5), Str("x")>>, <<>>),
      Arr(<<Str("x"), Num(5)>>, <<>>),
      Arr(<<Str("x")>>, << <<"c", Num(5)>> >>),
      Arr(<<Str("x")>>, << <<"NaN", Num(5)>> >>),
      Arr(<<Obj(<< <<"a", Str("x")>>, <<"c", Num(5)>> >>), Obj(<< <<"b", Num(5)>> >>)>>, <<>>) }

JSONTexts ==
    { "5", "\"x\"", "null", "{\"a\":\"x\"}", "{\"a\":5,\"b\":\"x\"}", "[\"x\",5]",
      "{\"a\":1", "", "undefined" }

------------------------------------------------------------------------------
(* The program: module state after load, and the calls a caller can make. *)

NoCall ==
    [op |-> "none", schema |-> NullT, value |-> Undef, json |-> "",
     ret |-> Enter(<<>>, 0, <<>>)]

Thrown == [success |-> FALSE, value |-> Undef, errors |-> 0, unwrap |-> <<"threw", 0>>]

Outcome(ret) == IF ret.threw THEN Thrown ELSE ret.res

Init ==
    /\ heap = <<>>
    /\ currentErrors = 0
    /\ currentField = <<>>
    /\ results = <<>>
    /\ last = NoCall
    /\ checkers = <<StringT, StringOrNumber>>

\* The module state a call leaves, and what its caller holds.
Return(op, schema, value, json, ret, kept) ==
    /\ heap' = ret.heap
    /\ currentErrors' = ret.cur
    /\ currentField' = ret.field
    /\ results' = IF kept THEN Append(results, Outcome(ret)) ELSE results
    /\ last' = [op |-> op, schema |-> schema, value |-> value, json |-> json,
                ret |-> ret]
    /\ UNCHANGED checkers

\* A top-level parse(schema, obj).
ParseOn(schemas, values) ==
    \E schema \in schemas, obj \in values :
        Return("parse", schema, obj, "",
               Parse(schema, obj, Enter(heap, currentErrors, currentField)), TRUE)

\* A top-level parseJSON(schema, json).
ParseJSONOn(schemas, texts) ==
    \E schema \in schemas, json \in texts :
        Return("parseJSON", schema, JSONParse(json).value, json,
               ParseJSON(schema, json, Enter(heap, currentErrors, currentField)), TRUE)

\* schema.check(value) called directly.
CheckOn(schemas, values) ==
    \E schema \in schemas, value \in values :
        Return("check", schema, value, "",
               Check(schema, value, Enter(heap, currentErrors, currentField)), FALSE)

Accepts(c) == ~c.threw /\ c.ok

\* schema.sanitize(value) called directly, on a value the checker accepts.
SanitizeOn(schemas, values) ==
    \E schema \in schemas, value \in values :
        /\ Accepts(Check(schema, value, Enter(heap, currentErrors, currentField)))
        /\ Return("sanitize", schema, value, "",
                  Sanitize(schema, value, Enter(heap, currentErrors, currentField)),
                  FALSE)

\* Spec: one call of an entry point or of a checker method, made on the
\* module as loaded, over the whole family of checkers and values.
ParseCall == last.op = "none" /\ ParseOn(Schemas, Values)
ParseJSONCall == last.op = "none" /\ ParseJSONOn(Schemas, JSONTexts)
CheckCall == last.op = "none" /\ CheckOn(Schemas, Values)
SanitizeCall == last.op = "none" /\ SanitizeOn(Schemas, Values)

Next == ParseCall \/ ParseJSONCall \/ CheckCall \/ SanitizeCall

Spec == Init /\ [][Next]_vars

\* SpecSeq: sequences of up to MaxCalls top-level parse / parseJSON calls.
SeqSchemas == { StringT, StringOrNumber, ObjAB, Array(StringT),
                Refine(StringT, PredThrows, DefaultMessage),
                Object(<< <<"a", Array(Refine(StringT, PredThrows, DefaultMessage))>> >>),
                Object(<< <<"a", Refine(StringT, PredParse(NumberT), DefaultMessage)>>,
                          <<"b", NumberT>> >>) }

SeqValues == { Str("x"), Num(5), Bool(TRUE),
               Obj(<< <<"a", Num(5)>>, <<"b", Str("x")>> >>),
               Obj(<< <<"a", Str("x")>>, <<"b", Num(5)>> >>),
               Obj(<< <<"a", Arr(<<Str("x")>>, <<>>)>> >>),
               Arr(<<Num(5), Str("x")>>, <<>>) }

SeqTexts == { "5", "{\"a\":5,\"b\":\"x\"}", "{\"a\":1" }

SeqParseCall == Len(results) < MaxCalls /\ ParseOn(SeqSchemas, SeqValues)
SeqParseJSONCall == Len(results) < MaxCalls /\ ParseJSONOn(SeqSchemas, SeqTexts)

NextSeq == SeqParseCall \/ SeqParseJSONCall

SpecSeq == Init /\ [][NextSeq]_vars

\* SpecRefine: the caller derives checkers from the ones it holds with
\* refine, up to MaxCheckers objects.
RefinePredicates == { <<"nonEmpty", 0>>, <<"never", 0>>, <<"isString", 0>> }

RefineMessages == { DefaultMessage, MessageString("rejected") }

\* As RefineObject, but also installing the refined check on the checker
\* refine was called on.
RefineObjectInPlace(objects, c, check, message) ==
    Append([objects EXCEPT ![c] = Refine(@, check, message)],
           Refine(objects[c], check, message))

\* r = c.refine(check, message): createTypeChecker builds a new object
\* from a copy of c's base; no existing object is written.
RefineObject(objects, c, check, message) ==
    Append(objects, Refine(objects[c], check, message))

RefineCall ==
    /\ Len(checkers) < MaxCheckers
    /\ \E c \in DOMAIN checkers, check \in RefinePredicates, message \in RefineMessages :
           /\ checkers' = RefineObject(checkers, c, check, message)
           /\ last' = [op |-> "refine", schema |-> checkers'[Len(checkers')],
                       value |-> Undef, json |-> "", ret |-> Enter(<<>>, 0, <<>>)]
    /\ UNCHANGED <<heap, currentErrors, currentField, results>>

NextRefine == RefineCall

SpecRefine == Init /\ [][NextRefine]_vars

\* SpecTypeString: one call of toTypeString, with or without options, over
\* the family of checkers and some more that nest unions and
\* intersections in arrays, object fields and each other.
ObjAOnly == Object(<< <<"a", StringT>> >>)
ObjBUnion == Object(<< <<"b", Or(<<NumberT, BooleanT>>)>> >>)
ObjXY == And(<<Object(<< <<"x", StringT>> >>), Object(<< <<"y", NumberT>> >>)>>)
DeeplyNested == Or(<<And(<<ObjAOnly, ObjBUnion>>), Array(ObjXY)>>)

TypeStringSchemas ==
    Schemas \cup
    { DeeplyNested, ObjBUnion, ObjXY,
      Array(StringOrNumber),
      Array(Array(StringOrNumber)),
      Array(Or(<<NumberT, NullT>>)),
      Or(<<StringOrNumber, NullT>>),
      And(<<StringOrNumber, ObjAB>>),
      Or(<<StringT>>),
      Object(<< <<"a", StringOrNumber>>, <<"b", Optional(ObjXY)>> >>),
      Object(<< <<"name", StringT>>, <<"age", NumberT>>,
                <<"active", Optional(BooleanT)>> >>),
      Object(<< <<"b", Optional(StringOrNumber)>>, <<"0", Array(NullT)>> >>),
      Refine(StringOrNumber, <<"never", 0>>, DefaultMessage),
      Array(Refine(StringOrNumber, <<"never", 0>>, DefaultMessage)) }

TypeStringOptionValues ==
    { Undef, Obj(<<>>), Obj(<< <<"nested", Bool(FALSE)>> >>),
      Obj(<< <<"nested", Bool(TRUE)>> >>) }

ToTypeStringCall ==
    /\ last.op = "none"
    /\ \E schema \in TypeStringSchemas, options \in TypeStringOptionValues :
           last' = [op |-> "toTypeString", schema |-> schema, value |-> options,
                    json |-> "",
                    ret |-> ReturnValue(Enter(heap, currentErrors, currentField),
                                        Str(TypeCheckerToTypeString(schema, options)))]
    /\ UNCHANGED <<heap, currentErrors, currentField, results, checkers>>

NextTypeString == ToTypeStringCall

SpecTypeString == Init /\ [][NextTypeString]_vars

------------------------------------------------------------------------------
(* Properties *)

\* The context parse installs on the module as loaded, and no context.
Fresh == Enter(<< <<>> >>, 1, <<>>)
NoContext == Enter(<<>>, 0, <<>>)

Res == last.ret.res
Log == last.ret.log

ErrorsOf(h, errors) == IF errors = 0 THEN <<>> ELSE h[errors]

\* C1: parse(schema, value) returns success:true exactly when
\* schema.check(value) returned true, and then value is
\* schema.sanitize(value).value and errors is undefined; otherwise it returns
\* success:false, value undefined, and errors is the list of errors that
\* check recorded, in the order they were recorded.
C1_ParseResult ==
    (last.op = "parse" /\ ~last.ret.threw) =>
        LET checked == Check(last.schema, last.value, Fresh) IN
        /\ Res.success = checked.ok
        /\ checked.ok =>
             /\ Res.value = Sanitize(last.schema, last.value, NoContext).val
             /\ Res.errors = 0
        /\ ~checked.ok =>
             /\ Res.value = Undef
             /\ Res.errors # 0
             /\ heap[Res.errors] = checked.heap[1]

\* A parse that failed with several errors.
C1_Witness ==
    /\ last.op = "parse"
    /\ ~last.ret.threw
    /\ ~Res.success
    /\ Len(ErrorsOf(heap, Res.errors)) >= 2

\* C2: parseJSON on text that fails to decode returns success:false with
\* exactly one error, whose field is the empty path and whose message is
\* "Failed to parse JSON", calls neither schema.check nor schema.sanitize,
\* and unwrap() throws that error; on text that decodes it returns what
\* parse(schema, decoded) returns.
C2_ParseJSON ==
    last.op = "parseJSON" =>
        IF ~JSONParse(last.json).ok
        THEN /\ ~last.ret.threw
             /\ ~Res.success
             /\ Res.value = Undef
             /\ ErrorsOf(heap, Res.errors) = <<ParseError(<<>>, "Failed to parse JSON")>>
             /\ last.ret.trace = <<>>
             /\ Unwrap(Res, heap) =
                  [threw |-> TRUE, error |-> ParseError(<<>>, "Failed to parse JSON")]
        ELSE LET p == Parse(last.schema, JSONParse(last.json).value, NoContext) IN
             /\ last.ret.threw = p.threw
             /\ ~p.threw =>
                  /\ Res.success = p.res.success
                  /\ Res.value = p.res.value
                  /\ ErrorsOf(heap, Res.errors) = ErrorsOf(p.heap, p.res.errors)

\* parseJSON was given text that does not decode.
C2_Witness ==
    /\ last.op = "parseJSON"
    /\ ~JSONParse(last.json).ok
    /\ Len(results) = 1
    /\ ~results[1].success

\* C3: on every exit path of parse (a success result, a failure result, an
\* exception thrown out of schema.check) the error context active after the
\* call is the one that was active before it: none after a top-level call,
\* the caller's after a call made from a predicate.
C3_ContextRestored ==
    last.op \in {"parse", "parseJSON"} =>
        /\ currentErrors = 0
        /\ currentField = <<>>
        /\ \A i \in DOMAIN Log :
             /\ Log[i].curAfter = Log[i].cur
             /\ Log[i].fieldAfter = Log[i].field

\* A parse called from a predicate of a running parse threw, and the
\* exception left the outer parse as well.
C3_Witness ==
    /\ last.op = "parse"
    /\ last.ret.threw
    /\ \E i \in DOMAIN Log : Log[i].threw /\ Log[i].cur # 0

\* C4: when parse(inner, w) is called while an outer parse is running its
\* check, then on return the outer call's error list holds exactly the
\* errors it held just before the nested call started, whatever the inner
\* schema and whether the nested call succeeded or failed.
C4_OuterErrorsKept ==
    \A i \in DOMAIN Log :
        (Log[i].cur # 0 /\ ~Log[i].threw) => Log[i].outerAfter = Log[i].outerBefore

\* C5: a parse started from a predicate while the outer field path is not
\* empty reports its errors with paths relative to its own root value, as
\* the same parse does when started at the empty path.
C5_NestedPathsRelative ==
    \A i \in DOMAIN Log :
        (Log[i].field # <<>> /\ ~Log[i].threw) =>
            LET alone == Parse(Log[i].schema, Log[i].value, NoContext) IN
            Log[i].errors = ErrorsOf(alone.heap, alone.res.errors)

\* C6: for any sequence of top-level parse calls, the errors of each
\* failure result are exactly the errors recorded during that call, in an
\* array of its own, and no later call changes the error list of an
\* earlier result.
C6_ErrorIsolation ==
    [][ /\ \A i \in DOMAIN results :
             results[i].errors # 0 =>
                 /\ heap'[results[i].errors] = heap[results[i].errors]
                 /\ results'[Len(results')].errors # results[i].errors
        /\ (last'.op = "parse" /\ ~last'.ret.threw /\ ~last'.ret.res.success) =>
                 heap'[last'.ret.res.errors]
                     = Check(last'.schema, last'.value, Fresh).heap[1]
      ]_vars

\* Two failed parse calls in a row, each holding its own errors.
C6_Witness ==
    /\ Len(results) = 2
    /\ results[1].errors # 0
    /\ results[2].errors # 0
    /\ last.op = "parse"
    /\ heap[results[1].errors] # <<>>
    /\ heap[results[2].errors] # heap[results[1].errors]

\* C7: for every checker c and value v with c.check(v) true,
\* c.check(c.sanitize(v).value) is true and sanitizing the sanitized value
\* again gives an equal value.
C7_SanitizeIdempotent ==
    (last.op = "sanitize" /\ ~last.ret.threw) =>
        /\ Accepts(Check(last.schema, last.ret.val, NoContext))
        /\ Sanitize(last.schema, last.ret.val, NoContext).val = last.ret.val

\* Contexts a check can be entered in during a parse: at the root with no
\* error yet, and below a key and an index with an error already recorded.
EntryContexts ==
    { Fresh,
      Enter(<< <<ParseError(<<>>, "earlier")>> >>, 1, << <<"key", "p">>, <<"idx", 0>> >>) }

\* A declared field is checked unless it is optional and absent or undefined.
FieldChecked(field, v) ==
    field[2][1] = "optional" => (HasOwn(v, field[1]) /\ Get(v, field[1]) # Undef)

FieldType(field) == IF field[2][1] = "optional" THEN field[2][2] ELSE field[2]

\* The field's own checker run on the field's value, alone, at the path of
\* the entry context extended by the key.
FieldRun(field, v, e) ==
    Check(FieldType(field), Get(v, field[1]),
          Enter(<< <<>> >>, 1, Append(e.field, <<"key", field[1]>>)))

RECURSIVE FieldErrors(_, _, _)
FieldErrors(fields, v, e) ==
    IF fields = <<>> THEN <<>>
    ELSE (IF FieldChecked(fields[1], v) THEN FieldRun(fields[1], v, e).heap[1] ELSE <<>>)
         \o FieldErrors(Tail(fields), v, e)

\* object.check on a mapping, with the declared fields taken in the order
\* given: every checked field is checked whatever failed before it, the
\* result is false iff some field failed, and the errors of the failing
\* fields follow the errors present at entry, in that order.
ObjectCollectsAll(fields) ==
    ( /\ last.op \in {"parse", "check"}
      /\ last.schema[1] = "object"
      /\ Tag(last.value) = "obj" ) =>
        \A e \in EntryContexts :
            LET r == Check(last.schema, last.value, e) IN
            ~r.threw =>
                /\ r.ok = (\A i \in DOMAIN fields :
                              FieldChecked(fields[i], last.value)
                                  => FieldRun(fields[i], last.value, e).ok)
                /\ r.heap[1] = e.heap[1] \o FieldErrors(fields, last.value, e)
                /\ \A i \in DOMAIN fields :
                       FieldChecked(fields[i], last.value) =>
                           \E j \in DOMAIN r.trace :
                               r.trace[j] = <<"check", FieldType(fields[i])[1],
                                              Append(e.field, <<"key", fields[i][1]>>)>>

\* C8 as stated: the errors of the failing keys are left in
\* schema-declaration order.
C8_DeclarationOrder == ObjectCollectsAll(last.schema[2])

\* C8, amended: object(schema).check on a mapping checks every declared key
\* regardless of failures at earlier keys, returns false iff some key
\* failed, and leaves the errors of all failing keys in the order
\* Object.entries enumerates the schema (integer-like keys in ascending
\* numeric order first, then the other keys in declaration order), each
\* with the key appended to the path current at entry.
C8_EntriesOrder == ObjectCollectsAll(JsObject(last.schema[2]))

\* A parse of a mapping against a schema that declares an integer-like
\* key after another key, with every key failing.
C8_Witness ==
    /\ last.op = "parse"
    /\ last.schema = ObjB1A
    /\ Tag(last.value) = "obj"
    /\ ~Res.success
    /\ Len(ErrorsOf(heap, Res.errors)) = 3

RECURSIVE NoUndeclaredKey(_, _)
\* No mapping in a sanitized value has a key its object checker does not
\* declare, at any depth.
NoUndeclaredKey(type, out) ==
    type[1] = "object" =>
        /\ Tag(out) = "obj"
        /\ \A i \in DOMAIN out[2] :
               \E j \in DOMAIN type[2] :
                   /\ type[2][j][1] = out[2][i][1]
                   /\ NoUndeclaredKey(FieldType(type[2][j]), out[2][i][2])

\* object.sanitize on a mapping the checker accepts, with the declared
\* fields taken in the order given.
ObjectSanitizeEmits(fields) ==
    ( /\ last.op = "sanitize"
      /\ last.schema[1] = "object"
      /\ Tag(last.value) = "obj"
      /\ ~last.ret.threw ) =>
        LET out == last.ret.val
            emitted == SelectSeq(fields, LAMBDA f : FieldChecked(f, last.value))
        IN /\ Tag(out) = "obj"
           /\ Keys(out[2]) = Keys(emitted)
           /\ \A i \in DOMAIN emitted :
                  out[2][i][2] = Sanitize(FieldType(emitted[i]),
                                          Get(last.value, emitted[i][1]),
                                          NoContext).val
           /\ NoUndeclaredKey(last.schema, out)

\* C9 as stated: the keys of the result are in schema-declaration order.
C9_DeclarationOrder == ObjectSanitizeEmits(last.schema[2])

\* C9, amended: object(schema).sanitize(v) returns a new mapping whose keys
\* are exactly the declared keys that are required or present and not
\* undefined in v, in the order Object.entries enumerates the schema
\* (integer-like keys in ascending numeric order first, then the other
\* keys in declaration order) whatever the key order of v, each value being
\* the declared checker's sanitize of v's value; every undeclared key of v
\* is dropped, at every nesting level.
C9_EntriesOrder == ObjectSanitizeEmits(JsObject(last.schema[2]))

\* A mapping with an undeclared key at two levels was sanitized.
C9_Witness ==
    /\ last.op = "sanitize"
    /\ last.schema = ObjKA
    /\ HasOwn(last.value, "c")
    /\ HasOwn(Get(last.value, "k"), "c")
    /\ ~last.ret.threw

\* C10: for any input that is not a keyed mapping (a string, number,
\* boolean, null, undefined or an ordered sequence) object(schema).check
\* returns false, records exactly one error "expected object" at the
\* current path, and checks no declared key.
C10_OnlyMappings ==
    ( /\ last.op \in {"parse", "check"}
      /\ last.schema[1] = "object"
      /\ Tag(last.value) \notin {"obj", "inst"} ) =>
        \A e \in EntryContexts :
            LET r == Check(last.schema, last.value, e) IN
            /\ ~r.threw
            /\ ~r.ok
            /\ r.heap[1] = Append(e.heap[1], ParseError(e.field, "expected object"))
            /\ Len(r.trace) = 1

\* The errors of a list whose field path starts with the given path.
ErrorsUnder(errors, path) ==
    SelectSeq(errors, LAMBDA x : /\ Len(x.field) >= Len(path)
                                 /\ SubSeq(x.field, 1, Len(path)) = path)

\* The optional fields an object schema declares.
OptionalFields(schema) == {i \in DOMAIN schema : schema[i][2][1] = "optional"}

\* An optional key is treated as absent when the input does not have it or
\* has it with the value undefined.
TreatedAsAbsent(v, key) == ~HasOwn(v, key) \/ Get(v, key) = Undef

\* C11: for a key declared optional(c) in an object schema: when the key is
\* absent from the input or its value is undefined, check records no error
\* under the key and does not call c.check, and sanitize emits no such key;
\* in every other case, null included, check records exactly the errors
\* c.check records for the value at the key's path, and sanitize emits the
\* key with c.sanitize of the value.
C11_OptionalKey ==
    ( /\ last.op \in {"parse", "check", "sanitize"}
      /\ last.schema[1] = "object"
      /\ Tag(last.value) = "obj"
      /\ ~last.ret.threw ) =>
        \A i \in OptionalFields(last.schema[2]) :
            LET key == last.schema[2][i][1]
                c == last.schema[2][i][2][2]
                v == last.value
                path == << <<"key", key>> >>
                r == Check(last.schema, v, Fresh)
                out == Sanitize(last.schema, v, NoContext).val
            IN IF TreatedAsAbsent(v, key)
               THEN /\ ErrorsUnder(r.heap[1], path) = <<>>
                    /\ \A j \in DOMAIN r.trace : r.trace[j][3] # path
                    /\ last.op = "sanitize" => ~HasOwn(out, key)
               ELSE /\ ErrorsUnder(r.heap[1], path)
                         = Check(c, Get(v, key), Enter(<< <<>> >>, 1, path)).heap[1]
                    /\ \E j \in DOMAIN r.trace : r.trace[j] = <<"check", c[1], path>>
                    /\ last.op = "sanitize" =>
                         /\ HasOwn(out, key)
                         /\ Get(out, key) = Sanitize(c, Get(v, key), NoContext).val
                         /\ out = last.ret.val

\* An object with an optional key was parsed with the key's value null,
\* which the wrapped checker rejects.
C11_Witness ==
    /\ last.op = "parse"
    /\ last.schema = ObjAOptB
    /\ HasOwn(last.value, "b") /\ Get(last.value, "b") = Null
    /\ ~Res.success

\* elem.check run alone on the element at position j (index j - 1) of a
\* sequence, at the path of the entry context extended by the index.
ElementRun(elem, v, j, e) ==
    Check(elem, ArrElems(v)[j], Enter(<< <<>> >>, 1, Append(e.field, <<"idx", j - 1>>)))

\* Position j holds the sequence's lowest invalid index.
LowestInvalid(elem, v, j, e) ==
    /\ j \in DOMAIN ArrElems(v)
    /\ ~ElementRun(elem, v, j, e).threw
    /\ ~ElementRun(elem, v, j, e).ok
    /\ \A k \in 1..(j - 1) : Accepts(ElementRun(elem, v, k, e))

\* C12: array(elem).check is fail-fast: on a sequence whose lowest invalid
\* index is i it returns false, elem.check is never called on an index
\* greater than i, and the errors recorded are exactly those elem.check
\* recorded for index i, with i appended to the path current at entry; on
\* a non-sequence it records exactly one error "expected array" at the
\* current path and checks no element.
C12_ArrayFailFast ==
    ( /\ last.op \in {"parse", "check"}
      /\ last.schema[1] = "array" ) =>
        \A e \in EntryContexts :
            LET elem == last.schema[2]
                v == last.value
                r == Check(last.schema, v, e)
            IN IF Tag(v) # "arr"
               THEN /\ ~r.threw /\ ~r.ok
                    /\ r.heap[1] = Append(e.heap[1], ParseError(e.field, "expected array"))
                    /\ Len(r.trace) = 1
               ELSE \A j \in DOMAIN ArrElems(v) :
                        LowestInvalid(elem, v, j, e) =>
                            /\ ~r.threw /\ ~r.ok
                            /\ \A t \in DOMAIN r.trace :
                                   \A k \in (j + 1)..Len(ArrElems(v)) :
                                       r.trace[t][3] # Append(e.field, <<"idx", k - 1>>)
                            /\ r.heap[1] = e.heap[1] \o ElementRun(elem, v, j, e).heap[1]

\* The sequence with its real elements only.
ElementsOnly(v) == Arr(ArrElems(v), <<>>)

\* C13: array(elem).check looks only at the integer-indexed own entries of
\* the sequence: its result and the errors it records are those it gives
\* for the same sequence without its other own properties, whatever their
\* names and values.
C13_OnlyIndexedEntries ==
    ( /\ last.op \in {"parse", "check"}
      /\ last.schema[1] = "array"
      /\ Tag(last.value) = "arr" ) =>
        \A e \in EntryContexts :
            LET r == Check(last.schema, last.value, e)
                bare == Check(last.schema, ElementsOnly(last.value), e)
            IN /\ r.threw = bare.threw
               /\ r.ok = bare.ok
               /\ r.heap[1] = bare.heap[1]

\* Every alternative of the union rejects the value.
EveryAlternativeFails(args, v) ==
    \A i \in DOMAIN args :
        /\ ~Check(args[i], v, Fresh).threw
        /\ ~Check(args[i], v, Fresh).ok

\* C14: when every alternative of or(a1..an) fails on a value, or.check
\* returns false and the error list at return is the list at entry plus
\* exactly one error, at the current path, with message "expected "
\* followed by the union's un-nested type string; no error recorded by an
\* alternative remains.
C14_UnionSuppression ==
    ( /\ last.op \in {"parse", "check"}
      /\ last.schema[1] = "or"
      /\ EveryAlternativeFails(last.schema[2], last.value) ) =>
        \A e \in EntryContexts :
            LET r == Check(last.schema, last.value, e) IN
            /\ ~r.threw
            /\ ~r.ok
            /\ r.heap[1] = Append(e.heap[1],
                                  ParseError(e.field,
                                             "expected " \o ToTypeString(last.schema, FALSE)))
            /\ last.schema = StringOrNumber =>
                   r.heap[1][Len(r.heap[1])].message = "expected string | number"
            /\ last.schema = Or(<<NoString, ObjAB>>) =>
                   r.heap[1][Len(r.heap[1])].message
                       = "expected string | { a: string; b: number; }"

\* A union was parsed on a value each of whose alternatives records an
\* error of its own: a refinement error and an error below a key.
C14_Witness ==
    /\ last.op = "parse"
    /\ last.schema = Or(<<NoString, ObjAB>>)
    /\ last.value = Str("x")
    /\ ~Res.success
    /\ Check(NoString, last.value, Fresh).heap[1] # <<>>
    /\ Len(ErrorsOf(heap, Res.errors)) = 1

\* The operands of a union or intersection whose check accepts the value,
\* and what each gives as its sanitized value.
Passing(args, v) == {i \in DOMAIN args : Accepts(Check(args[i], v, NoContext))}

SanitizedBy(args, v, i) == Sanitize(args[i], v, NoContext).val

Lowest(S) == CHOOSE i \in S : \A j \in S : i <= j

Highest(S) == CHOOSE i \in S : \A j \in S : j <= i

\* out is the shallow merge, in operand order, of the sanitized values of
\* the operands in S: it has the union of their keys, each with the value
\* of the last operand that has the key.
IsMergeOf(out, args, v, S) ==
    /\ Tag(out) = "obj"
    /\ \A k \in {out[2][n][1] : n \in DOMAIN out[2]} :
           \E i \in S : HasOwn(SanitizedBy(args, v, i), k)
    /\ \A i \in S :
           \A n \in DOMAIN SanitizedBy(args, v, i)[2] :
               LET k == SanitizedBy(args, v, i)[2][n][1]
                   having == {j \in S : HasOwn(SanitizedBy(args, v, j), k)}
               IN /\ HasOwn(out, k)
                  /\ Get(out, k) = Get(SanitizedBy(args, v, Highest(having)), k)

UnionSanitized ==
    /\ last.op = "sanitize"
    /\ last.schema[1] = "or"
    /\ ~last.ret.threw

\* C15 as stated: with f the first passing alternative, the result is f's
\* sanitized value when that is not a plain mapping, and otherwise the
\* merge of the plain-mapping sanitized values of all passing
\* alternatives, a passing alternative with another kind of sanitized
\* value changing nothing.
C15_LaterNonMappingIgnored ==
    UnionSanitized =>
        LET args == last.schema[2]
            v == last.value
            f == Lowest(Passing(args, v))
        IN IF ~IsPlainObject(SanitizedBy(args, v, f))
           THEN last.ret.val = SanitizedBy(args, v, f)
           ELSE IsMergeOf(last.ret.val, args, v,
                          {i \in Passing(args, v) : IsPlainObject(SanitizedBy(args, v, i))})

\* C15, amended: or(a1..an).sanitize(v) goes through the alternatives whose
\* check(v) passes, in declared order: if one of them has a sanitized
\* value that is not a plain mapping, the result is exactly the sanitized
\* value of the first such alternative, whatever was merged before it;
\* otherwise the result is the shallow merge, in declared order, of the
\* sanitized values of all passing alternatives.
C15_FirstNonMappingReturned ==
    UnionSanitized =>
        LET args == last.schema[2]
            v == last.value
            other == {i \in Passing(args, v) : ~IsPlainObject(SanitizedBy(args, v, i))}
        IN IF other # {}
           THEN last.ret.val = SanitizedBy(args, v, Lowest(other))
           ELSE IsMergeOf(last.ret.val, args, v, Passing(args, v))

\* A union was sanitized on a value that passes an alternative with a
\* plain-mapping sanitized value and then one with another kind of value.
C15_Witness ==
    /\ UnionSanitized
    /\ Cardinality(Passing(last.schema[2], last.value)) = 2
    /\ IsPlainObject(SanitizedBy(last.schema[2], last.value, 1))
    /\ ~IsPlainObject(SanitizedBy(last.schema[2], last.value, 2))
    /\ Tag(last.value) = "inst"
    /\ last.ret.val = last.value

\* Operand i's check run alone on the value, at the path of the entry
\* context.
OperandRun(args, v, i, e) == Check(args[i], v, Enter(<< <<>> >>, 1, e.field))

RECURSIVE OperandErrors(_, _, _, _)
OperandErrors(args, v, i, e) ==
    IF i > Len(args) THEN <<>>
    ELSE OperandRun(args, v, i, e).heap[1] \o OperandErrors(args, v, i + 1, e)

\* C16: and(a1..an).check calls the check of every operand on the same
\* value even after an operand has failed, returns the conjunction of
\* their results, and leaves in the error list, after the errors present
\* at entry, the errors each operand recorded, in operand order, none
\* removed or merged.
C16_IntersectionCollectsAll ==
    ( /\ last.op \in {"parse", "check"}
      /\ last.schema[1] = "and" ) =>
        \A e \in EntryContexts :
            LET args == last.schema[2]
                v == last.value
                r == Check(last.schema, v, e)
            IN ~r.threw =>
                /\ r.ok = (\A i \in DOMAIN args : OperandRun(args, v, i, e).ok)
                /\ r.heap[1] = e.heap[1] \o OperandErrors(args, v, 1, e)
                /\ \A i \in DOMAIN args :
                       \E t \in DOMAIN r.trace :
                           r.trace[t] = <<"check", args[i][1], e.field>>

\* An intersection was parsed on a value that its first operand rejects
\* and a later operand rejects as well.
C16_Witness ==
    /\ last.op = "parse"
    /\ last.schema[1] = "and"
    /\ ~last.ret.threw
    /\ ~Check(last.schema[2][1], last.value, Fresh).ok
    /\ ~Check(last.schema[2][2], last.value, Fresh).ok
    /\ Len(ErrorsOf(heap, Res.errors)) >= 2

IntersectionSanitized ==
    /\ last.op = "sanitize"
    /\ last.schema[1] = "and"
    /\ ~last.ret.threw

\* C17: and(a1..an).sanitize(v), when every operand passes and every
\* operand's sanitized value is a plain mapping: the result has exactly the
\* union of the operands' sanitized keys, and a key produced by several
\* operands has the value of the last such operand in argument order.
C17_IntersectionMerge ==
    LET args == last.schema[2]
        v == last.value
    IN ( /\ IntersectionSanitized
         /\ Passing(args, v) = DOMAIN args
         /\ \A i \in DOMAIN args : IsPlainObject(SanitizedBy(args, v, i)) ) =>
            IsMergeOf(last.ret.val, args, v, DOMAIN args)

\* An intersection of two object checkers was sanitized on a value for
\* which both produce the same key with different values.
C17_Witness ==
    /\ IntersectionSanitized
    /\ \E k \in {"a", "b", "k"} :
           /\ HasOwn(SanitizedBy(last.schema[2], last.value, 1), k)
           /\ HasOwn(SanitizedBy(last.schema[2], last.value, 2), k)
           /\ Get(SanitizedBy(last.schema[2], last.value, 1), k)
                  # Get(SanitizedBy(last.schema[2], last.value, 2), k)
           /\ Get(last.ret.val, k) = Get(SanitizedBy(last.schema[2], last.value, 2), k)

\* A value that is a keyed mapping and nothing more (no sequence, no
\* class instance, no primitive).
IsMapping(v) == Tag(v) = "obj"

\* The keys some object operand of the intersection declares.
DeclaredKeys(args) ==
    UNION { {args[i][2][n][1] : n \in DOMAIN args[i][2]} :
            i \in {j \in DOMAIN args : args[j][1] = "object"} }

WithPermissiveOperand(args) ==
    /\ \E i \in DOMAIN args : args[i][1] = "object"
    /\ \E i \in DOMAIN args : args[i][1] \in {"any", "unknown"}

RefinementMessage(message, v) ==
    IF message[1] = "string" THEN message[2] ELSE message[2] \o " " \o Typeof(v)

\* C19: c.refine(p, message).check(v) calls c.check(v) first; if that fails
\* it returns false, does not call p and records only c's errors; if it
\* passes and p(v) is false it returns false and records exactly one
\* further error, after p has returned, at the current path, whose message
\* is the given string, the result of the given function on v, or
\* "invalid value".
C19_RefineAfterBase ==
    ( /\ last.op \in {"parse", "check"}
      /\ last.schema[1] = "refine" ) =>
        \A e \in EntryContexts :
            LET c == last.schema[2][1]
                p == last.schema[2][2]
                message == last.schema[2][3]
                v == last.value
                b == Check(c, v, e)
                r == Check(last.schema, v, e)
            IN ~r.threw =>
                IF ~b.ok
                THEN /\ ~r.ok
                     /\ r.trace = <<<<"check", "refine", e.field>>>> \o b.trace
                     /\ r.heap[1] = b.heap[1]
                ELSE ~ApplyPredicate(p, v, b).ok =>
                     /\ ~r.ok
                     /\ r.heap[1] = Append(ApplyPredicate(p, v, b).heap[1],
                                           ParseError(e.field, RefinementMessage(message, v)))
                     /\ message = DefaultMessage =>
                            r.heap[1][Len(r.heap[1])].message = "invalid value"

\* A refinement with a message function was parsed on a value its base
\* accepts and its predicate rejects.
C19_Witness ==
    /\ last.op = "parse"
    /\ last.schema = Refine(StringT, PredParse(NumberT), MessageFunction("not a number:"))
    /\ last.value = Str("x")
    /\ ErrorsOf(heap, Res.errors) = <<ParseError(<<>>, "not a number: string")>>

RECURSIVE ChainBase(_)
\* The checker a chain of refinements was started from.
ChainBase(type) == IF type[1] = "refine" THEN ChainBase(type[2][1]) ELSE type

RECURSIVE ChainLinks(_)
\* The <<predicate, message>> pairs of a chain, in the order attached.
ChainLinks(type) ==
    IF type[1] = "refine"
    THEN Append(ChainLinks(type[2][1]), <<type[2][2], type[2][3]>>)
    ELSE <<>>

\* Link i is the first of the chain whose predicate rejects the value.
FirstFailing(links, v, i) ==
    /\ i \in DOMAIN links
    /\ ~ApplyPredicate(links[i][1], v, NoContext).threw
    /\ ~ApplyPredicate(links[i][1], v, NoContext).ok
    /\ \A j \in 1..(i - 1) : Accepts(ApplyPredicate(links[j][1], v, NoContext))

\* C20: a chain c.refine(p1, m1)...refine(pk, mk) evaluates the predicates
\* in the order they were attached and stops at the first that fails:
\* check returns false, the predicates called are p1 up to the failing one
\* in that order, and the errors recorded hold exactly one refinement
\* error, the last recorded, with the message of the first failing
\* predicate.
C20_ChainFailFast ==
    ( /\ last.op \in {"parse", "check"}
      /\ Len(ChainLinks(last.schema)) >= 2
      /\ Accepts(Check(ChainBase(last.schema), last.value, NoContext)) ) =>
        \A e \in EntryContexts :
            LET links == ChainLinks(last.schema)
                v == last.value
                r == Check(last.schema, v, e)
                called == SelectSeq(r.trace, LAMBDA x : x[1] = "predicate")
                recorded == SubSeq(r.heap[1], Len(e.heap[1]) + 1, Len(r.heap[1]))
                messages == {RefinementMessage(links[j][2], v) : j \in DOMAIN links}
            IN \A i \in DOMAIN links :
                   FirstFailing(links, v, i) =>
                       /\ ~r.threw /\ ~r.ok
                       /\ called = [j \in 1..i |-> <<"predicate", links[j][1][1], e.field>>]
                       /\ SelectSeq(recorded, LAMBDA x : x.message \in messages)
                              = <<ParseError(e.field, RefinementMessage(links[i][2], v))>>
                       /\ recorded[Len(recorded)]
                              = ParseError(e.field, RefinementMessage(links[i][2], v))

\* A chain of three refinements was parsed on a value its first two
\* predicates both reject, and one error was reported.
C20_Witness ==
    /\ last.op = "parse"
    /\ Len(ChainLinks(last.schema)) = 3
    /\ FirstFailing(ChainLinks(last.schema), last.value, 1)
    /\ ~ApplyPredicate(ChainLinks(last.schema)[2][1], last.value, NoContext).ok
    /\ ErrorsOf(heap, Res.errors) = <<ParseError(<<>>, "first")>>

\* The values a refined checker and its base are compared on.
RefineValues == { Str("x"), Str(""), Num(5), Null, Obj(<< <<"a", Str("x")>> >>) }

\* Two checkers behave alike in check: same result, same errors, same
\* calls (of checks and of predicates), on every value.
SameCheck(c, d) ==
    \A v \in RefineValues, e \in EntryContexts : Check(c, v, e) = Check(d, v, e)

\* C21: refine returns a new checker and changes nothing else: after
\* r = c.refine(p), every checker that existed before, c included, checks
\* as it did before (same results, same errors, and no call of p), and
\* r.sanitize and r.toTypeString give what c.sanitize and c.toTypeString
\* give on every input.
C21_RefineFrame ==
    [][ last'.op = "refine" =>
          LET r == checkers'[Len(checkers')] IN
          /\ Len(checkers') = Len(checkers) + 1
          /\ \A i \in DOMAIN checkers : SameCheck(checkers'[i], checkers[i])
          /\ \E i \in DOMAIN checkers :
                 /\ r[1] = "refine"
                 /\ r[2][1] = checkers[i]
                 /\ \A v \in RefineValues :
                        Sanitize(r, v, NoContext).val
                            = Sanitize(checkers[i], v, NoContext).val
                 /\ \A nested \in BOOLEAN :
                        ToTypeString(r, nested) = ToTypeString(checkers[i], nested)
      ]_vars

\* A checker that was itself obtained by refine was refined again.
C21_Witness ==
    /\ last.op = "refine"
    /\ last.schema[2][1][1] = "refine"
    /\ checkers[Len(checkers)] = last.schema

RECURSIVE LeadsToSubValue(_, _)
\* The path names a place in the value: each key segment is a string
\* taken in a value that has properties, each index segment is an integer
\* index of a sequence, and no other kind of segment occurs.  A key the
\* value lacks names the place of the missing value and ends the path.
LeadsToSubValue(v, path) ==
    IF path = <<>> THEN TRUE
    ELSE CASE path[1][1] = "key" ->
                /\ InstanceOfObject(v)
                /\ LeadsToSubValue(Get(v, path[1][2]), Tail(path))
           [] path[1][1] = "idx" ->
                /\ Tag(v) = "arr"
                /\ path[1][2] < Len(ArrElems(v))
                /\ LeadsToSubValue(ArrElems(v)[path[1][2] + 1], Tail(path))
           [] OTHER -> FALSE

ParseFailed ==
    /\ last.op = "parse"
    /\ ~last.ret.threw
    /\ ~Res.success

\* C22: every error in a parse failure result carries as field the
\* sequence of object keys and array indices that leads from the parsed
\* root value to the sub-value where the fault was found, outermost first;
\* a fault of a value that is neither a mapping nor a sequence has the
\* empty path.
C22_FieldPaths ==
    ParseFailed =>
        \A n \in DOMAIN ErrorsOf(heap, Res.errors) :
            LET x == ErrorsOf(heap, Res.errors)[n] IN
            /\ LeadsToSubValue(last.value, x.field)
            /\ ~InstanceOfObject(last.value) => x.field = <<>>

\* Position i's checker run alone on the element at position i of the
\* sequence, at the path of the entry context extended by the index.
PositionRun(types, v, i, e) ==
    Check(types[i], ArrElems(v)[i],
          Enter(<< <<>> >>, 1, Append(e.field, <<"idx", i - 1>>)))

RECURSIVE PositionErrors(_, _, _, _)
PositionErrors(types, v, i, e) ==
    IF i > Len(types) THEN <<>>
    ELSE PositionRun(types, v, i, e).heap[1] \o PositionErrors(types, v, i + 1, e)

\* C23: tuple(e1..en).check on a sequence of length exactly n checks every
\* position with its index appended to the path and collects the errors
\* of all failing positions in index order, whatever failed before; on a
\* sequence of any other length it records one error
\* "expected array of length n" and checks no position.
C23_TupleCollectsAll ==
    ( /\ last.op \in {"parse", "check"}
      /\ last.schema[1] = "tuple"
      /\ Tag(last.value) = "arr" ) =>
        \A e \in EntryContexts :
            LET types == last.schema[2]
                v == last.value
                r == Check(last.schema, v, e)
            IN IF Len(ArrElems(v)) = Len(types)
               THEN ~r.threw =>
                    /\ r.ok = (\A i \in DOMAIN types : PositionRun(types, v, i, e).ok)
                    /\ r.heap[1] = e.heap[1] \o PositionErrors(types, v, 1, e)
                    /\ \A i \in DOMAIN types :
                           \E t \in DOMAIN r.trace :
                               r.trace[t] = <<"check", types[i][1],
                                              Append(e.field, <<"idx", i - 1>>)>>
               ELSE /\ ~r.threw /\ ~r.ok
                    /\ Len(r.heap[1]) = Len(e.heap[1]) + 1
                    /\ SubSeq(r.heap[1], 1, Len(e.heap[1])) = e.heap[1]
                    /\ r.heap[1][Len(r.heap[1])].message
                           = "expected array of length " \o ToString(Len(types))
                    /\ last.schema = Tuple(<<StringT, NumberT>>) =>
                           r.heap[1][Len(r.heap[1])].message = "expected array of length 2"
                    /\ Len(r.trace) = 1

\* tuple(string, number) was parsed on a sequence of two elements that
\* both fail, and both errors were reported.
C23_Witness ==
    /\ last.op = "parse"
    /\ last.schema = Tuple(<<StringT, NumberT>>)
    /\ ErrorsOf(heap, Res.errors)
           = << ParseError(<< <<"idx", 0>> >>, "expected string"),
                ParseError(<< <<"idx", 1>> >>, "expected number") >>

NestedOption == Obj(<< <<"nested", Bool(TRUE)>> >>)
TopLevelOption == Obj(<< <<"nested", Bool(FALSE)>> >>)

\* The operands from the i-th on, each rendered as in a nested position,
\* with the separator between them.
RECURSIVE NestedJoin(_, _, _)
NestedJoin(args, i, sep) ==
    IF i > Len(args) THEN ""
    ELSE (IF i = 1 THEN "" ELSE sep)
         \o TypeCheckerToTypeString(args[i], NestedOption)
         \o NestedJoin(args, i + 1, sep)

TypeStringReturned == last.ret.val[2]

\* C24: a union or intersection is wrapped in parentheses exactly when it
\* is rendered in a nested position: operands of or/and and the element of
\* array are nested positions, object field types and a top-level call
\* without options are not; or joins its operands with " | ", and with
\* " & ", and array appends "[]" to its element's nested rendering.
C24_ParenthesizedWhenNested ==
    last.op = "toTypeString" =>
        LET type == last.schema
            asked == last.value = NestedOption
            joined == NestedJoin(type[2], 1, IF type[1] = "or" THEN " | " ELSE " & ")
        IN /\ type[1] \in {"or", "and"} =>
                  TypeStringReturned =
                      IF asked THEN "(" \o joined \o ")" ELSE joined
           /\ type[1] = "array" =>
                  TypeStringReturned
                      = TypeCheckerToTypeString(type[2], NestedOption) \o "[]"
           /\ last.value = Undef =>
                  TypeStringReturned = TypeCheckerToTypeString(type, TopLevelOption)
           /\ type = ObjBUnion => TypeStringReturned = "{ b: number | boolean; }"
           /\ (type = StringOrNumber /\ ~asked) => TypeStringReturned = "string | number"
           /\ (type = StringOrNumber /\ asked) => TypeStringReturned = "(string | number)"
           /\ type = Array(Or(<<NumberT, NullT>>)) =>
                  TypeStringReturned = "(number | null)[]"
           /\ (type = DeeplyNested /\ ~asked) =>
                  TypeStringReturned =
                      "({ a: string; } & { b: number | boolean; }) | ({ x: string; } & { y: number; })[]"

\* toTypeString() without options on a union of an intersection and an
\* array of intersections.
C24_Witness ==
    /\ last.op = "toTypeString"
    /\ last.schema = DeeplyNested
    /\ last.value = Undef
    /\ TypeStringReturned =
           "({ a: string; } & { b: number | boolean; }) | ({ x: string; } & { y: number; })[]"

\* " key: T;" or " key?: T;" for each of the given schema entries, T the
\* un-nested type string of the key's checker.
RECURSIVE FieldStrings(_, _)
FieldStrings(entries, i) ==
    IF i > Len(entries) THEN ""
    ELSE LET key == entries[i][1]
             declared == entries[i][2]
         IN (IF declared[1] = "optional"
             THEN " " \o key \o "?: "
                  \o TypeCheckerToTypeString(declared[2], TopLevelOption)
             ELSE " " \o key \o ": "
                  \o TypeCheckerToTypeString(declared, TopLevelOption))
            \o ";" \o FieldStrings(entries, i + 1)

ObjectRendering(entries) ==
    IF entries = <<>> THEN "{}" ELSE "{" \o FieldStrings(entries, 1) \o " }"

StartsWith(field, path) ==
    /\ Len(field) >= Len(path)
    /\ SubSeq(field, 1, Len(path)) = path

CallCount(trace, kind, tag) ==
    Cardinality({t \in DOMAIN trace : trace[t][1] = kind /\ trace[t][2] = tag})

\* C27: during a parse, every call of a checker's sanitize, at any depth,
\* is on a value for which that same checker's check returned true earlier
\* in that parse (so no kind of checker is asked to sanitize more often
\* than it was asked to check); in particular array(elem).sanitize
\* sanitizes only entries that array(elem).check checked and returns a
\* sequence of the same length with no entry other than the sanitized
\* integer-indexed elements.
C27_SanitizeOnlyChecked ==
    (last.op = "parse" /\ ~last.ret.threw /\ Res.success) =>
        /\ \A t \in DOMAIN last.ret.trace :
               CallCount(last.ret.trace, "sanitize", last.ret.trace[t][2])
                   <= CallCount(last.ret.trace, "check", last.ret.trace[t][2])
        /\ last.schema[1] = "array" =>
               /\ Tag(Res.value) = "arr"
               /\ Len(ArrElems(Res.value)) = Len(ArrElems(last.value))
               /\ ArrProps(Res.value) = <<>>

\* How many calls the alternatives up to the k-th make when each is run
\* alone on the value.
RECURSIVE CallsUpTo(_, _, _, _)
CallsUpTo(args, v, k, e) ==
    IF k = 0 THEN 0
    ELSE Len(OperandRun(args, v, k, e).trace) + CallsUpTo(args, v, k - 1, e)

\* C28: when some alternative of or(a1..an) passes, or.check returns true
\* at the first passing alternative in declared order without calling the
\* check of any later alternative, and the error list at return is
\* identical to the list at entry: errors recorded by the earlier failed
\* alternatives are removed and errors recorded before the union was
\* entered are kept.
C28_UnionPassLeavesListAsAtEntry ==
    ( /\ last.op \in {"parse", "check"}
      /\ last.schema[1] = "or"
      /\ Passing(last.schema[2], last.value) # {} ) =>
        \A e \in EntryContexts :
            LET args == last.schema[2]
                first == Lowest(Passing(args, last.value))
                r == Check(last.schema, last.value, e)
            IN (\A i \in 1..(first - 1) : ~OperandRun(args, last.value, i, e).threw) =>
                   /\ ~r.threw
                   /\ r.ok
                   /\ Len(r.trace) = 1 + CallsUpTo(args, last.value, first, e)
                   /\ r.heap[1] = e.heap[1]

\* C29: the field-path stack is balanced: whenever a checker's check
\* returns or throws (including an exception thrown by a user predicate
\* inside nested objects and arrays), the path is exactly what it was when
\* that check was entered; so between top-level parse calls the path is
\* always empty.
C29_PathBalanced ==
    /\ currentField = <<>>
    /\ last.op \in {"parse", "parseJSON"} =>
           \A e \in EntryContexts :
               Check(last.schema, last.value, e).field = e.field

\* A second top-level parse threw from a predicate two levels down, under
\* a key and an index, after a first call had returned.
C29_Witness ==
    /\ Len(results) = 2
    /\ last.op = "parse"
    /\ last.schema = Object(<< <<"a", Array(Refine(StringT, PredThrows,
                                                   DefaultMessage))>> >>)
    /\ last.value = Obj(<< <<"a", Arr(<<Str("x")>>, <<>>)>> >>)
    /\ last.ret.threw
    /\ currentField = <<>>

\* C30: the boolean returned by check(v) does not depend on the error
\* context: for every checker and value it is the same with an active
\* context, with no context, and with a context that already holds errors;
\* with no active context check records nothing and does not fail for lack
\* of a context.
C30_ContextIndependent ==
    last.op \in {"parse", "check"} =>
        LET n == Check(last.schema, last.value, NoContext) IN
        /\ \A e \in EntryContexts :
               LET r == Check(last.schema, last.value, e) IN
               /\ r.threw = n.threw
               /\ ~r.threw => r.ok = n.ok
        /\ n.cur = 0
        /\ n.log = <<>> => n.heap = <<>>
        /\ \A i \in DOMAIN n.log :
               n.log[i].outerBefore = <<>> /\ n.log[i].outerAfter = <<>>

\* A union was checked directly on the module as loaded, with no parse in
\* progress: it returned false and there is no error list anywhere.
C30_Witness ==
    /\ last.op = "check"
    /\ last.schema = StringOrNumber
    /\ last.value = Null
    /\ ~last.ret.threw
    /\ ~last.ret.ok
    /\ currentErrors = 0
    /\ heap = <<>>
    /\ ~Check(last.schema, last.value, Fresh).ok

====
